---- MODULE Spec2Model ----
(***************************************************************************)
(* CampScheduler: the CP-SAT model built by Scheduler.solve                *)
(* (src/app/scheduler.py), the solver's choice of an assignment that       *)
(* satisfies the posted constraints, and the extraction of the schedule.   *)
(*                                                                         *)
(* A Boolean decision-variable table x[...] of the program is the set of   *)
(* index tuples at which the variable is 1.  The solver is a labelling     *)
(* search: it fixes the variables of one time slot after the other, keeps  *)
(* only values the posted constraints allow, and reports a solution when   *)
(* every constraint holds on the complete assignment.                      *)
(***************************************************************************)
EXTENDS Integers, Sequences, FiniteSets, TLC

\* ------------------------------------------------------------------------
\* Input tables (the DataFrames and dictionaries handed to Scheduler)
\* ------------------------------------------------------------------------

\* The hard-coded work week, cut to its first two days.
days == <<"Monday", "Tuesday">>

periods == <<1, 2, 3>>

time_slots ==
    << <<"Monday", 1>>, <<"Monday", 2>>, <<"Monday", 3>>,
       <<"Tuesday", 1>>, <<"Tuesday", 2>>, <<"Tuesday", 3>> >>

inspection_slots == << <<"Monday", 1>>, <<"Tuesday", 1>> >>

VARIABLE allowed_dr_days    \* self.allowed_dr_days

\* The allowed driving range days of the main data.
AllowedDays == <<"Monday", "Tuesday">>

\* The lists of the runs: the second has fewer days than there are groups.
AllowedDaysOptions == {AllowedDays, <<"Monday">>}

Range(s) == {s[x] : x \in DOMAIN s}

Slots == Range(time_slots)

Days == Range(days)

\* staff_df: staffID -> staffName
staff_df ==
    [i \in 1..10 |->
        CASE i = 1 -> "Ann"   [] i = 2 -> "Bob"   [] i = 3 -> "Cat"
          [] i = 4 -> "Dan"   [] i = 5 -> "Eve"   [] i = 6 -> "Fay"
          [] i = 7 -> "Gus"   [] i = 8 -> "Hal"   [] i = 9 -> "Ida"
          [] OTHER -> "Jon"]

staff_ids == <<1, 2, 3, 4, 5, 6, 7, 8, 9, 10>>

Staff == Range(staff_ids)

Act(name, req, max, dur, cat) ==
    [activityName |-> name, numStaffReq |-> req, maxStaff |-> max,
     duration |-> dur, category |-> cat]

\* activity_df: activityID -> row
activity_df ==
    [j \in 1..11 |->
        CASE j = 1 -> Act("waterfront", 1, 1, 1, "fixed")
          [] j = 2 -> Act("waterskiing", 1, 1, 1, "fixed")
          [] j = 3 -> Act("golf", 2, 2, 1, "sport")
          [] j = 4 -> Act("tennis", 1, 1, 1, "sport")
          [] j = 5 -> Act("driving range", 1, 2, 2, "sport")
          [] j = 6 -> Act("archery", 1, 1, 1, "sport")
          [] j = 7 -> Act("arts", 1, 1, 1, "craft")
          [] j = 8 -> Act("canoe", 1, 1, 1, "water")
          [] j = 9 -> Act("drama", 1, 1, 1, "craft")
          [] j = 10 -> Act("soccer", 1, 1, 1, "sport")
          [] OTHER -> Act("yoga", 1, 1, 1, "sport")]

activity_ids == <<1, 2, 3, 4, 5, 6, 7, 8, 9, 10, 11>>

Activities == Range(activity_ids)

VARIABLE location_df    \* self.location_df: locID -> locName

\* The location table of the main data.
LocationNames ==
    [l \in 1..9 |->
        CASE l = 1 -> "beach"   [] l = 2 -> "lake"    [] l = 3 -> "course"
          [] l = 4 -> "courts"  [] l = 5 -> "range"   [] l = 6 -> "field"
          [] l = 7 -> "barn"    [] l = 8 -> "dock"    [] OTHER -> "gym"]

location_ids == <<1, 2, 3, 4, 5, 6, 7, 8, 9>>

\* The location tables of the runs: in the second, the location of archery and
\* soccer is the one named "driving range".
LocationNamesOptions ==
    {LocationNames, [LocationNames EXCEPT ![6] = "driving range"]}

Locations == Range(location_ids)

\* location_options_df: the (activityID, locID) rows
location_options_df ==
    { <<1, 1>>, <<2, 2>>, <<3, 3>>, <<4, 4>>, <<5, 5>>,
      <<6, 6>>, <<7, 7>>, <<8, 8>>, <<9, 9>>, <<10, 6>>, <<11, 9>> }

group_ids == <<1, 2>>

Groups == Range(group_ids)

\* leads_mapping / assists_mapping: staffID -> activityIDs.  Nobody leads
\* yoga; Jon assists it.
LeadsDefault ==
    [i \in Staff |->
        CASE i = 1 -> {1}     [] i = 2 -> {2, 9}  [] i = 3 -> {3, 6}
          [] i = 4 -> {4}     [] i = 5 -> {5}     [] i = 6 -> {10}
          [] i = 7 -> {7}     [] i = 8 -> {8}     [] OTHER -> {}]

assists_mapping ==
    [i \in Staff |-> CASE i = 9 -> {4, 5} [] i = 10 -> {3, 11} [] OTHER -> {}]

\* The names of the trips of the trips table.
TripNames == {"museum"}


\* Special activity IDs looked up by name.
IdOf(name) == CHOOSE j \in Activities : activity_df[j].activityName = name

waterfront_id == IdOf("waterfront")

golf_id == IdOf("golf")

tennis_id == IdOf("tennis")

waterskiing_id == IdOf("waterskiing")

driving_range_id == IdOf("driving range")

\* The leads tables of the runs: the default one, and the default one with
\* the leads of one special activity removed.
LeadsOptions ==
    {LeadsDefault}
    \cup {[i \in Staff |-> LeadsDefault[i] \ {j}] :
            j \in {waterfront_id, waterskiing_id, golf_id, tennis_id, driving_range_id}}

\* valid_locations.get(j, [])
valid_locations(j) == {l \in Locations : <<j, l>> \in location_options_df}

\* ------------------------------------------------------------------------
\* The CP model.  m is a record holding the inputs of the Scheduler and the
\* decision-variable tables; a constraint is posted for every slot of the
\* week, and ConstraintN(m, K, GS) states its instances for the slots in K
\* and the groups in GS.
\* ------------------------------------------------------------------------

chosen(m, j, k, g) == <<j, k, g>> \in m.activity_chosen

\* sum(activity_chosen[j,k,g] for j in activity_ids)
NumChosen(m, k, g) == Cardinality({j \in Activities : chosen(m, j, k, g)})

\* staff_count[j,k,g] == sum(staff_assign[i,j,k,g] for i in staff_ids)
staff_count(m, j, k, g) ==
    Cardinality({i \in Staff : <<i, j, k, g>> \in m.staff_assign})

\* sum(staff_assign[i,j,k,g] for j in activity_ids for g in group_ids)
StaffLoad(m, i, k) ==
    Cardinality({c \in Activities \X Groups :
                    <<i, c[1], k, c[2]>> \in m.staff_assign})

\* Weaker than Constraint 1: two groups may have the same activity in a slot.
Constraint1_UpToTwo(m, K, GS) ==
    \A j \in Activities, k \in K :
        Cardinality({g \in Groups : chosen(m, j, k, g)}) <= 2

\* Constraint 1: activity exclusivity across groups in the same time slot
Constraint1(m, K, GS) ==
    \A j \in Activities, k \in K :
        Cardinality({g \in Groups : chosen(m, j, k, g)}) <= 1

\* Weaker than Constraint 2: a staff member may hold two assignments in a slot.
Constraint2_UpToTwo(m, K, GS) ==
    \A i \in Staff, k \in K : StaffLoad(m, i, k) <= 2

\* Constraint 2: staff non-overlap across activities and groups
Constraint2(m, K, GS) ==
    \A i \in Staff, k \in K : StaffLoad(m, i, k) <= 1

\* Weaker than Constraint 3: a location may host two activities in a slot.
Constraint3_UpToTwo(m, K, GS) ==
    \A l \in Locations, k \in K :
        Cardinality({c \in Activities \X Groups :
                        <<l, c[1], k, c[2]>> \in m.loc_assign}) <= 2

\* Constraint 3: location non-overlap across activities and groups
Constraint3(m, K, GS) ==
    \A l \in Locations, k \in K :
        Cardinality({c \in Activities \X Groups :
                        <<l, c[1], k, c[2]>> \in m.loc_assign}) <= 1

\* Constraint 4: activities only take place in valid locations
Constraint4(m, K, GS) ==
    \A g \in GS, j \in Activities, k \in K :
        Cardinality({l \in valid_locations(j) : <<l, j, k, g>> \in m.loc_assign})
            = (IF chosen(m, j, k, g) THEN 1 ELSE 0)

\* Other than Constraint 5: three activities in a slot that is no golf+tennis slot.
Constraint5_Three(m, K, GS) ==
    \A g \in GS, k \in K :
        k \notin m.waterfront_schedule[g] =>
            /\ <<k, g>> \notin m.golf_tennis_slot => NumChosen(m, k, g) = 3
            /\ <<k, g>> \in m.golf_tennis_slot => NumChosen(m, k, g) = 2

\* Constraint 5: number of activities of a group in a slot
Constraint5(m, K, GS) ==
    \A g \in GS, k \in K :
        k \notin m.waterfront_schedule[g] =>
            /\ <<k, g>> \notin m.golf_tennis_slot => NumChosen(m, k, g) = 4
            /\ <<k, g>> \in m.golf_tennis_slot => NumChosen(m, k, g) = 2

\* Constraint 6: link staff, location and activity assignments
Constraint6(m, K, GS) ==
    \A g \in GS, j \in Activities, k \in K :
        LET nloc == Cardinality({l \in Locations : <<l, j, k, g>> \in m.loc_assign})
        IN  /\ chosen(m, j, k, g) => nloc = 1
            /\ ~chosen(m, j, k, g) => nloc = 0
            /\ \A l \in Locations :
                  /\ <<l, j, k, g>> \in m.loc_assign => staff_count(m, j, k, g) > 0
                  /\ ~chosen(m, j, k, g) => <<l, j, k, g>> \notin m.loc_assign

\* Constraint 7: staff availability (activities and inspection)
Constraint7(m, K, GS) ==
    \A i \in Staff :
        \A k \in m.staff_off_time_slots[i] \cap K :
            /\ \A j \in Activities, g \in GS : <<i, j, k, g>> \notin m.staff_assign
            /\ k \in Range(inspection_slots) => <<i, k>> \notin m.inspection_slot

\* Constraint 8: minimum staffing of a chosen activity, none when not chosen
Constraint8(m, K, GS) ==
    \A g \in GS, j \in Activities, k \in K :
        /\ chosen(m, j, k, g) =>
              staff_count(m, j, k, g) >= activity_df[j].numStaffReq
        /\ ~chosen(m, j, k, g) => staff_count(m, j, k, g) = 0

\* Constraint 9: skill qualification
Constraint9(m, K, GS) ==
    \A g \in GS, i \in Staff :
        LET can_participate_set == m.leads_mapping[i] \cup assists_mapping[i]
        IN  \A j \in Activities, k \in K :
                j \notin can_participate_set => <<i, j, k, g>> \notin m.staff_assign

\* Weaker than Constraint 10: a chosen activity needs no lead.
Constraint10_NoLead(m, K, GS) ==
    \A g \in GS, j \in Activities, k \in K : chosen(m, j, k, g) => TRUE

\* Weaker than Constraint 10: an assigned assistant counts as a lead.
Constraint10_LeadOrAssist(m, K, GS) ==
    \A g \in GS, j \in Activities, k \in K :
        LET leads_assigned ==
                Cardinality({i \in Staff :
                                /\ j \in m.leads_mapping[i] \cup assists_mapping[i]
                                /\ <<i, j, k, g>> \in m.staff_assign})
        IN  chosen(m, j, k, g) => leads_assigned >= 1

\* Constraint 10: leadership requirement
Constraint10(m, K, GS) ==
    \A g \in GS, j \in Activities, k \in K :
        LET leads_assigned ==
                Cardinality({i \in Staff : /\ j \in m.leads_mapping[i]
                                           /\ <<i, j, k, g>> \in m.staff_assign})
        IN  chosen(m, j, k, g) => leads_assigned >= 1

\* Weaker than Constraint 11: waterfront and one more activity in a pattern slot.
Constraint11_WaterfrontOnly(m, K, GS) ==
    \A g \in GS :
        \A k \in m.waterfront_schedule[g] \cap K :
            /\ chosen(m, waterfront_id, k, g)
            /\ NumChosen(m, k, g) = 2

\* Constraint 11: waterfront and waterskiing in the pattern slots, nothing else
Constraint11(m, K, GS) ==
    \A g \in GS :
        \A k \in m.waterfront_schedule[g] \cap K :
            /\ chosen(m, waterfront_id, k, g)
            /\ chosen(m, waterskiing_id, k, g)
            /\ NumChosen(m, k, g) = 2

\* Weaker than Constraint 12: nothing is required when golf_tennis_slot is false.
Constraint12_OneWay(m, K, GS) ==
    \A g \in GS, k \in K :
        LET both == (IF chosen(m, golf_id, k, g) THEN 1 ELSE 0)
                    + (IF chosen(m, tennis_id, k, g) THEN 1 ELSE 0)
        IN  <<k, g>> \in m.golf_tennis_slot =>
                NumChosen(m, k, g) = 2 /\ both = 2

\* Constraint 12: golf and tennis pairing
Constraint12(m, K, GS) ==
    \A g \in GS, k \in K :
        LET both == (IF chosen(m, golf_id, k, g) THEN 1 ELSE 0)
                    + (IF chosen(m, tennis_id, k, g) THEN 1 ELSE 0)
        IN  /\ <<k, g>> \in m.golf_tennis_slot =>
                  NumChosen(m, k, g) = 2 /\ both = 2
            /\ <<k, g>> \notin m.golf_tennis_slot => both <= 1

\* Weaker than Constraint 13: one golf+tennis slot per week is enough.
Constraint13_Once(m) ==
    \A g \in Groups :
        Cardinality({k \in Slots : <<k, g>> \in m.golf_tennis_slot}) >= 1

\* Constraint 13: golf and tennis pairing at least twice per week
Constraint13(m) ==
    \A g \in Groups :
        Cardinality({k \in Slots : <<k, g>> \in m.golf_tennis_slot}) >= 2

\* Constraint 14: golf and tennis pairing at most once per day
Constraint14(m, K, GS) ==
    \A g \in GS, d \in Days :
        LET day_slots == {k \in Slots : k[1] = d}
        IN  Cardinality({k \in day_slots : <<k, g>> \in m.golf_tennis_slot}) <= 1

\* Weaker than Constraint 15: a day may go without an inspector.
Constraint15_AtMostOne(m, K, GS) ==
    \A day \in Days :
        LET day_slot == <<day, 1>>
        IN  day_slot \in K =>
                Cardinality({i \in Staff : <<i, day_slot>> \in m.inspection_slot}) <= 1

\* Constraint 15: exactly one staff member on inspection each day in period 1
Constraint15(m, K, GS) ==
    \A day \in Days :
        LET day_slot == <<day, 1>>
        IN  day_slot \in K =>
                Cardinality({i \in Staff : <<i, day_slot>> \in m.inspection_slot}) = 1

\* Constraint 16: inspection and activity exclusivity
Constraint16(m, K, GS) ==
    \A i \in Staff, k \in K :
        k[2] = 1 =>
            StaffLoad(m, i, k)
                + (IF <<i, k>> \in m.inspection_slot THEN 1 ELSE 0) <= 1

\* Constraint 17: driving range exactly once per week on an allowed day
Constraint17(m) ==
    \A g \in Groups :
        Cardinality({day \in Range(m.allowed_dr_days) :
                        <<g, day>> \in m.driving_range_day}) = 1

\* Weaker than Constraint 18: driving range is allowed in every slot.
Constraint18_AnySlot(m, K, GS) ==
    \A g \in GS, k \in K : chosen(m, driving_range_id, k, g) => TRUE

\* Constraint 18: driving range only in periods 1 and 2 of allowed days
Constraint18(m, K, GS) ==
    \A g \in GS, k \in K :
        (k[1] \notin Range(m.allowed_dr_days) \/ k[2] \notin {1, 2}) =>
            ~chosen(m, driving_range_id, k, g)

\* Weaker than Constraint 19: a driving range day does not force the choice.
Constraint19_OnlyIf(m, K, GS) ==
    \A g \in GS, day \in Range(m.allowed_dr_days) :
        \A kk \in {<<day, 1>>, <<day, 2>>} \cap K :
            <<g, day>> \notin m.driving_range_day => ~chosen(m, driving_range_id, kk, g)

\* Constraint 19: driving range period continuity
Constraint19(m, K, GS) ==
    \A g \in GS, day \in Range(m.allowed_dr_days) :
        \A kk \in {<<day, 1>>, <<day, 2>>} \cap K :
            /\ <<g, day>> \in m.driving_range_day => chosen(m, driving_range_id, kk, g)
            /\ <<g, day>> \notin m.driving_range_day => ~chosen(m, driving_range_id, kk, g)

DRStaff(m, g, day) == {i \in Staff : <<g, day, i>> \in m.driving_range_staff}

\* Constraint 20: driving range staffing
Constraint20(m, K, GS) ==
    \A g \in GS, day \in Range(m.allowed_dr_days) :
        <<day, 1>> \in K =>
            /\ <<g, day>> \in m.driving_range_day => Cardinality(DRStaff(m, g, day)) >= 1
            /\ <<g, day>> \notin m.driving_range_day => Cardinality(DRStaff(m, g, day)) = 0

\* Constraint 21: driving range staff continuity
Constraint21(m, K, GS) ==
    \A g \in GS, day \in Range(m.allowed_dr_days), i \in Staff :
        \A kk \in {<<day, 1>>, <<day, 2>>} \cap K :
            /\ <<g, day>> \in m.driving_range_day =>
                  (<<i, driving_range_id, kk, g>> \in m.staff_assign
                      <=> <<g, day, i>> \in m.driving_range_staff)
            /\ <<g, day>> \notin m.driving_range_day =>
                  <<i, driving_range_id, kk, g>> \notin m.staff_assign

\* Constraint 22: staff availability for driving range
Constraint22(m, K, GS) ==
    \A g \in GS, day \in Range(m.allowed_dr_days), i \in Staff :
        LET unavailable_time_slots == m.staff_off_time_slots[i]
        IN  (<<day, 1>> \in unavailable_time_slots
                \/ <<day, 2>> \in unavailable_time_slots) =>
                    <<g, day, i>> \notin m.driving_range_staff

\* Constraint 23: trip assignment enforcement
Constraint23(m, K, GS) ==
    \A i \in Staff :
        \A t \in Range(m.staff_trips[i]) :
            t[1] \in K => <<i, t[1], t[2]>> \in m.trip_assign

\* Weaker than Constraint 24: a trip excludes activities but not inspection.
Constraint24_ActivitiesOnly(m, K, GS) ==
    \A i \in Staff :
        \A t \in Range(m.staff_trips[i]) :
            (t[1] \in K /\ <<i, t[1], t[2]>> \in m.trip_assign) =>
                StaffLoad(m, i, t[1]) = 0

\* Constraint 24: trip exclusivity
Constraint24(m, K, GS) ==
    \A i \in Staff :
        \A t \in Range(m.staff_trips[i]) :
            (t[1] \in K /\ <<i, t[1], t[2]>> \in m.trip_assign) =>
                /\ StaffLoad(m, i, t[1]) = 0
                /\ t[1] \in Range(inspection_slots) =>
                      <<i, t[1]>> \notin m.inspection_slot

\* Weaker than Constraint 25: an activity may come twice in a day.
Constraint25_UpToTwo(m, K, GS) ==
    \A g \in GS, j \in Activities :
        activity_df[j].duration <= 1 =>
            \A day \in Days :
                Cardinality({p \in Range(periods) :
                                /\ <<day, p>> \in Slots
                                /\ chosen(m, j, <<day, p>>, g)}) <= 2

\* Constraint 25: no duration-1 activity twice in the same day for a group
Constraint25(m, K, GS) ==
    \A g \in GS, j \in Activities :
        activity_df[j].duration <= 1 =>
            \A day \in Days :
                Cardinality({p \in Range(periods) :
                                /\ <<day, p>> \in Slots
                                /\ chosen(m, j, <<day, p>>, g)}) <= 1

\* Weaker than Constraint 26: one staff member more than maxStaff.
Constraint26_OneMore(m, K, GS) ==
    \A j \in Activities, g \in GS, k \in K :
        staff_count(m, j, k, g) <= activity_df[j].maxStaff + 1

\* Constraint 26: maximum staffing
Constraint26(m, K, GS) ==
    \A j \in Activities, g \in GS, k \in K :
        staff_count(m, j, k, g) <= activity_df[j].maxStaff

\* Weaker than Constraint 11A: waterskiing is kept out of the first period
\* only, whatever the waterfront pattern.
Constraint11A_FirstPeriodOnly(m, K, GS) ==
    \A g \in GS, k \in K :
        (k \notin m.waterfront_schedule[g] /\ k[2] = 1) => ~chosen(m, waterskiing_id, k, g)

\* Constraint 11A: waterskiing limited to waterfront slots
Constraint11A(m, K, GS) ==
    \A g \in GS, k \in K :
        k \notin m.waterfront_schedule[g] => ~chosen(m, waterskiing_id, k, g)

\* waterski_slots_by_day[d]: the (slot, group) pairs of the pattern on day d
waterski_slots_by_day(m, d) ==
    {sg \in Slots \X Groups : sg[1] \in m.waterfront_schedule[sg[2]] /\ sg[1][1] = d}

\* Weaker than Constraint 11B: waterskiing in a slot sets the day flag, but
\* the day flag does not bring the other waterskiing slots of the day.
Constraint11B_OneWay(m, K, GS) ==
    \A i \in Staff, d \in Days :
        (\A k \in Slots : k[1] = d => k \in K) =>
            LET slots_pairs == waterski_slots_by_day(m, d)
            IN  IF slots_pairs # {}
                THEN \A sg \in slots_pairs :
                        <<i, waterskiing_id, sg[1], sg[2]>> \in m.staff_assign
                            => <<i, d>> \in m.waterski_staff_day
                ELSE <<i, d>> \notin m.waterski_staff_day

\* Constraint 11B: waterskiing staff daily continuity
Constraint11B(m, K, GS) ==
    \A i \in Staff, d \in Days :
        (\A k \in Slots : k[1] = d => k \in K) =>
            LET slots_pairs == waterski_slots_by_day(m, d)
            IN  IF slots_pairs # {}
                THEN \A sg \in slots_pairs :
                        <<i, waterskiing_id, sg[1], sg[2]>> \in m.staff_assign
                            <=> <<i, d>> \in m.waterski_staff_day
                ELSE <<i, d>> \notin m.waterski_staff_day


\* ------------------------------------------------------------------------
\* Inputs that vary between runs
\* ------------------------------------------------------------------------

\* How many rows the off-days table and the trips table hold at most.
MaxOffRows == 1

MaxTripRows == 1

\* A date string "MM/DD/YYYY" is held as its three numbers <<mm, dd, yyyy>>.

\* calendar.day_name
day_name ==
    <<"Monday", "Tuesday", "Wednesday", "Thursday", "Friday", "Saturday", "Sunday">>

\* datetime.strptime(date_str, "%m/%d/%Y").weekday(): 0 for Monday, 6 for
\* Sunday, from the number of days since 01/01/0001, a Monday.
weekday(dt) ==
    LET y == dt[3]
        is_leap == y % 4 = 0 /\ (y % 100 # 0 \/ y % 400 = 0)
        days_before_year ==
            (y - 1) * 365 + (y - 1) \div 4 - (y - 1) \div 100 + (y - 1) \div 400
        days_before_month ==
            <<0, 31, 59, 90, 120, 151, 181, 212, 243, 273, 304, 334>>[dt[1]]
                + (IF dt[1] > 2 /\ is_leap THEN 1 ELSE 0)
    IN  (days_before_year + days_before_month + dt[2] + 6) % 7

\* map_dates_to_time_slots(dates)
RECURSIVE map_dates_to_time_slots(_)
map_dates_to_time_slots(dates) ==
    IF dates = <<>> THEN <<>>
    ELSE LET dn == day_name[weekday(Head(dates)) + 1]
         IN  (IF dn = "Sunday" THEN <<>>
              ELSE [p \in 1..3 |-> <<dn, p>>])
             \o map_dates_to_time_slots(Tail(dates))

\* A row of the trips table.
TripRow(i, name, dt, sp, ep) ==
    [staffID |-> i, trip_name |-> name, date |-> dt, start_period |-> sp,
     end_period |-> ep]

\* trip_slots of a row: [(dow_name, p) for p in range(start_period, end_period+1)]
trip_slots(row) ==
    [n \in 1..(row.end_period - row.start_period + 1) |->
        <<day_name[weekday(row.date) + 1], row.start_period + n - 1>>]

\* Rows (staffID, date) of the off-days table.
OffRowOptions == { <<9, <<6, 30, 2025>>>>, <<9, <<7, 1, 2025>>>> }

\* Rows of the trips table.
TripRowOptions ==
    { TripRow(9, "museum", <<6, 30, 2025>>, 1, 1),
      TripRow(8, "museum", <<6, 30, 2025>>, 1, 1) }

RECURSIVE SeqOfSet(_)
SeqOfSet(S) ==
    IF S = {} THEN <<>>
    ELSE LET x == CHOOSE y \in S : TRUE IN <<x>> \o SeqOfSet(S \ {x})

\* staff_off_time_slots built from the rows R of the off-days table
OffSlots(R) ==
    [i \in Staff |->
        Range(map_dates_to_time_slots(SeqOfSet({r[2] : r \in {x \in R : x[1] = i}})))]

RECURSIVE Flatten(_)
Flatten(ss) == IF ss = <<>> THEN <<>> ELSE Head(ss) \o Flatten(Tail(ss))

\* staff_trips built from the rows R of the trips table:
\* staffID -> list of (slot, trip_name)
TripLists(R) ==
    [i \in Staff |->
        Flatten([n \in 1..Cardinality({x \in R : x.staffID = i}) |->
            LET row == SeqOfSet({x \in R : x.staffID = i})[n]
            IN  [q \in 1..Len(trip_slots(row)) |->
                    <<trip_slots(row)[q], row.trip_name>>]])]

\* The off-days tables and the trips tables of the runs.
OffOptions == {X \in SUBSET OffRowOptions : Cardinality(X) <= MaxOffRows}

TripOptions == {X \in SUBSET TripRowOptions : Cardinality(X) <= MaxTripRows}

\* waterfront_schedule: group -> pattern slots
WaterfrontOptions ==
    { [g \in Groups |-> IF g = 1 THEN {<<"Tuesday", 2>>} ELSE {<<"Monday", 2>>}],
      [g \in Groups |-> {<<"Tuesday", 2>>}] }

NoOff == [i \in Staff |-> {}]

NoTrips == [i \in Staff |-> <<>>]

\* The model before the solver has fixed any variable.
Blank(w, off, trips) ==
    [waterfront_schedule |-> w, staff_off_time_slots |-> off, staff_trips |-> trips,
     leads_mapping |-> LeadsDefault, allowed_dr_days |-> AllowedDays,
     activity_chosen |-> {}, staff_assign |-> {}, loc_assign |-> {},
     golf_tennis_slot |-> {}, inspection_slot |-> {}, driving_range_day |-> {},
     driving_range_staff |-> {}, trip_assign |-> {}, waterski_staff_day |-> {}]

\* ------------------------------------------------------------------------
\* The solver's search (solver.Solve): it fixes the variables of one group
\* and slot at a time and keeps only values the posted constraints allow.
\* ------------------------------------------------------------------------

\* A set and a table the search looks up, enumerated once.
Enum(S) == {x : x \in S}

Table(f) == f @@ <<>>

\* The (activity, group) pairs chosen in slot k.
Cells(m, k) == {c \in Activities \X Groups : chosen(m, c[1], k, c[2])}

\* A slot and a group to state the constraints of one activity on its own.
k0 == time_slots[1]

g0 == group_ids[1]

W0 == [g \in Groups |-> IF g = 1 THEN {<<"Tuesday", 2>>} ELSE {<<"Monday", 2>>}]

\* The staff sets the staffing constraints allow for a chosen activity j, for
\* each leads mapping; only sets of staff who lead or assist j are tried, the
\* others being excluded by Constraint 9.
StaffCands ==
    Table([key \in LeadsOptions \X Activities |->
        Enum({S \in SUBSET {i \in Staff :
                                key[2] \in key[1][i] \cup assists_mapping[i]} :
            LET j == key[2]
                m == [Blank(W0, NoOff, NoTrips) EXCEPT
                        !.leads_mapping = key[1],
                        !.activity_chosen = {<<j, k0, g0>>},
                        !.staff_assign = {<<i, j, k0, g0>> : i \in S}]
            IN  /\ Constraint8(m, {k0}, {g0})
                /\ Constraint9(m, {k0}, {g0})
                /\ Constraint10(m, {k0}, {g0})
                /\ Constraint26(m, {k0}, {g0})})])

\* The location sets the location constraints allow for a chosen, staffed activity j.
LocCands ==
    Table([j \in Activities |->
        Enum({L \in SUBSET Locations :
            LET m == [Blank(W0, NoOff, NoTrips) EXCEPT
                        !.activity_chosen = {<<j, k0, g0>>},
                        !.staff_assign = {<<staff_ids[1], j, k0, g0>>},
                        !.loc_assign = {<<l, j, k0, g0>> : l \in L}]
            IN  Constraint4(m, {k0}, {g0}) /\ Constraint6(m, {k0}, {g0})})])

RECURSIVE StaffExt(_, _, _)
\* staff_assign of slot k for the chosen activities in cells.
StaffExt(m, k, cells) ==
    IF cells = {} THEN {m}
    ELSE LET c == CHOOSE x \in cells : TRUE
             ext == {[m EXCEPT !.staff_assign = @ \cup {<<i, c[1], k, c[2]>> : i \in S}] :
                        S \in StaffCands[<<m.leads_mapping, c[1]>>]}
             ok == {x \in ext : Constraint2(x, {k}, Groups)}
         IN  UNION {StaffExt(x, k, cells \ {c}) : x \in ok}

RECURSIVE LocExt(_, _, _)
\* loc_assign of slot k for the chosen activities in cells.
LocExt(m, k, cells) ==
    IF cells = {} THEN {m}
    ELSE LET c == CHOOSE x \in cells : TRUE
             ext == {[m EXCEPT !.loc_assign = @ \cup {<<l, c[1], k, c[2]>> : l \in L}] :
                        L \in LocCands[c[1]]}
             ok == {x \in ext : Constraint3(x, {k}, Groups)}
         IN  UNION {LocExt(x, k, cells \ {c}) : x \in ok}

\* The activity sets the per-slot constraints allow for group g in slot k,
\* by the value gt of golf_tennis_slot[k, g]; the key is <<w, k, g, gt>>.
ChosenCands ==
    Table([key \in {x \in WaterfrontOptions \X Slots \X Groups \X BOOLEAN
                            \X AllowedDaysOptions :
                        x[1] = W0 \/ x[5] = AllowedDays} |->
        LET k == key[2]
            g == key[3]
            cell == [Blank(key[1], NoOff, NoTrips) EXCEPT
                        !.allowed_dr_days = key[5],
                        !.golf_tennis_slot = IF key[4] THEN {<<k, g>>} ELSE {}]
        IN  Enum({c \in SUBSET Activities :
                LET m == [cell EXCEPT !.activity_chosen = {<<j, k, g>> : j \in c}]
                IN  /\ Constraint5(m, {k}, {g})
                    /\ Constraint11(m, {k}, {g})
                    /\ Constraint11A(m, {k}, {g})
                    /\ Constraint12(m, {k}, {g})
                    /\ Constraint18(m, {k}, {g})})])

\* The chosen activities of group g in slot k with their staff and locations,
\* by gt and by the value dr of driving_range_day[g, day of k]; the key is
\* <<w, k, g, gt, dr, leads>>.
CellCandsFor(key) ==
        LET k == key[2]
            g == key[3]
            cell == [Blank(key[1], NoOff, NoTrips) EXCEPT
                        !.leads_mapping = key[6][1],
                        !.allowed_dr_days = key[6][2],
                        !.golf_tennis_slot = IF key[4] THEN {<<k, g>>} ELSE {},
                        !.driving_range_day = IF key[5] THEN {<<g, k[1]>>} ELSE {}]
            base == {[cell EXCEPT !.activity_chosen = {<<j, k, g>> : j \in c}] :
                        c \in ChosenCands[<<key[1], k, g, key[4], key[6][2]>>]}
            picked == {x \in base :
                          /\ Constraint19(x, {k}, {g})
                          /\ \A c \in Cells(x, k) :
                                StaffCands[<<x.leads_mapping, c[1]>>] # {}}
            staffed == UNION {StaffExt(x, k, Cells(x, k)) : x \in picked}
            located == UNION {LocExt(x, k, Cells(x, k)) : x \in staffed}
        IN  {[c |-> x.activity_chosen, s |-> x.staff_assign, l |-> x.loc_assign] :
                x \in located}

CellCands ==
    Table([key \in WaterfrontOptions \X Slots \X Groups \X BOOLEAN \X BOOLEAN
                      \X {<<LeadsDefault, AllowedDays>>} |-> CellCandsFor(key)])

\* The same table for the other lists of allowed days.
VariantCands ==
    Table([key \in {W0} \X Slots \X Groups \X BOOLEAN \X BOOLEAN
                      \X ({LeadsDefault} \X (AllowedDaysOptions \ {AllowedDays}))
                |-> CellCandsFor(key)])

\* Values of golf_tennis_slot allowed by the weekly pairing constraints.
GTTables ==
    Enum({t \in SUBSET (Slots \X Groups) :
            LET m == [Blank(W0, NoOff, NoTrips) EXCEPT !.golf_tennis_slot = t]
            IN  Constraint13(m) /\ Constraint14(m, Slots, Groups)})

\* Values of driving_range_day allowed by the weekly frequency constraint.
DRDTables ==
    Table([d \in AllowedDaysOptions |->
        Enum({t \in SUBSET (Groups \X Range(d)) :
            Constraint17([Blank(W0, NoOff, NoTrips) EXCEPT
                            !.allowed_dr_days = d, !.driving_range_day = t])})])

\* The keys of trip_assign.
TripKeys(m) ==
    {x \in Staff \X Slots \X TripNames :
        \E n \in DOMAIN m.staff_trips[x[1]] : m.staff_trips[x[1]][n] = <<x[2], x[3]>>}

\* The candidates of group g in slot k under the week-level variables of m.
\* leads_mapping is read by Constraints 9 and 10 only and every mapping of the
\* runs is contained in the main one, so the candidates under another mapping
\* are those of the main mapping that satisfy Constraints 9 and 10 under it.
CandsOf(m, k, g) ==
    LET key == <<m.waterfront_schedule, k, g, <<k, g>> \in m.golf_tennis_slot,
                 <<g, k[1]>> \in m.driving_range_day,
                 <<LeadsDefault, m.allowed_dr_days>>>>
        cands == IF m.allowed_dr_days = AllowedDays THEN CellCands[key]
                 ELSE VariantCands[key]
        led(x) == LET cell == [Blank(m.waterfront_schedule, NoOff, NoTrips) EXCEPT
                                  !.leads_mapping = m.leads_mapping,
                                  !.activity_chosen = x.c, !.staff_assign = x.s]
                  IN  Constraint9(cell, {k}, {g}) /\ Constraint10(cell, {k}, {g})
    IN  IF m.leads_mapping = LeadsDefault THEN cands
        ELSE {x \in cands : led(x)}

\* The activities that the week-level variables and the waterfront pattern
\* force to be chosen: those that every candidate of their group and slot holds.
Forced(m) ==
    [m EXCEPT !.activity_chosen =
        {t \in Activities \X Slots \X Groups :
            \A x \in CandsOf(m, t[2], t[3]) : t \in x.c}]

\* The week-level variables: golf+tennis slots, driving range days, trips;
\* values that leave some group without a candidate in some slot, or that
\* force one activity on two groups in a slot, are dropped.
WeekExt(m) ==
    {x \in {[m EXCEPT !.golf_tennis_slot = gt, !.driving_range_day = drd,
                      !.trip_assign = ta] :
               gt \in GTTables, drd \in DRDTables[m.allowed_dr_days], ta \in SUBSET TripKeys(m)} :
        /\ Constraint23(x, Slots, Groups)
        /\ \A k \in Slots, g \in Groups : CandsOf(x, k, g) # {}
        /\ Constraint1(Forced(x), Slots, Groups)}

RECURSIVE ActExt(_, _, _)
\* activity_chosen, staff_assign and loc_assign of slot k for the groups in gs.
ActExt(m, k, gs) ==
    IF gs = {} THEN {m}
    ELSE UNION {UNION {ActExt(x, k, gs \ {g}) :
                    x \in {y \in {[m EXCEPT !.activity_chosen = @ \cup cand.c,
                                             !.staff_assign = @ \cup cand.s,
                                             !.loc_assign = @ \cup cand.l] :
                                    cand \in CandsOf(m, k, g)} :
                                /\ Constraint25(y, {k}, {g})
                                /\ Constraint1(y, {k}, Groups)
                                /\ Constraint2(y, {k}, Groups)
                                /\ Constraint3(y, {k}, Groups)
                                /\ Constraint7(y, {k}, {g})
                                /\ Constraint24(y, {k}, Groups)}} :
                \* the lowest group of gs comes first
                g \in {x \in gs : \A y \in gs : x <= y}}

\* driving_range_staff of the day that starts in slot k.
DRSExt(m, k) ==
    IF k[2] = 1 /\ k[1] \in Range(m.allowed_dr_days)
    THEN LET pool == {x \in Groups \X {k[1]} \X Staff :
                        <<x[3], driving_range_id, k, x[1]>> \in m.staff_assign}
         IN  {x \in {[m EXCEPT !.driving_range_staff = @ \cup t] : t \in SUBSET pool} :
                /\ Constraint20(x, {k}, Groups)
                /\ Constraint22(x, {k}, Groups)}
    ELSE {m}

\* The inspection assignments the daily requirement allows in a period-1 slot.
InspCands ==
    Enum({S \in SUBSET Staff :
            Constraint15([Blank(W0, NoOff, NoTrips) EXCEPT
                            !.inspection_slot = {<<i, k0>> : i \in S}], {k0}, Groups)})

\* inspection_slot of slot k (the variable exists in period 1 only).
InspExt(m, k) ==
    IF k[2] = 1
    THEN {x \in {[m EXCEPT !.inspection_slot = @ \cup {<<i, k>> : i \in S}] :
                    S \in InspCands} :
            /\ Constraint16(x, {k}, Groups)
            /\ Constraint7(x, {k}, Groups)
            /\ Constraint24(x, {k}, Groups)}
    ELSE {m}

\* waterski_staff_day of a day, fixed with the last slot of the day.
WSDExt(m, k, K) ==
    LET d == k[1]
        pool == {x \in Staff \X {d} :
                    \E sg \in Slots \X Groups :
                        sg[1][1] = d /\ <<x[1], waterskiing_id, sg[1], sg[2]>> \in m.staff_assign}
    IN  IF \A kk \in Slots : kk[1] = d => kk \in K
        THEN {x \in {[m EXCEPT !.waterski_staff_day = @ \cup t] : t \in SUBSET pool} :
                Constraint11B(x, K, Groups)}
        ELSE {m}

\* The first n slots of time_slots.
Labelled(n) == {time_slots[x] : x \in 1..n}

\* All values of the variables of slot k that extend m; K: the slots fixed with k.
SlotExt(m, k, K) ==
    UNION {WSDExt(d, k, K) :
        d \in UNION {InspExt(c, k) :
            c \in {b \in UNION {DRSExt(a, k) : a \in ActExt(m, k, Groups)} :
                      Constraint21(b, {k}, Groups)}}}

\* Every posted constraint, on the complete assignment.
AllConstraints(m) ==
    /\ Constraint1(m, Slots, Groups)   /\ Constraint2(m, Slots, Groups)
    /\ Constraint3(m, Slots, Groups)   /\ Constraint4(m, Slots, Groups)
    /\ Constraint5(m, Slots, Groups)   /\ Constraint6(m, Slots, Groups)
    /\ Constraint7(m, Slots, Groups)   /\ Constraint8(m, Slots, Groups)
    /\ Constraint9(m, Slots, Groups)   /\ Constraint10(m, Slots, Groups)
    /\ Constraint11(m, Slots, Groups)  /\ Constraint12(m, Slots, Groups)
    /\ Constraint13(m)                 /\ Constraint14(m, Slots, Groups)
    /\ Constraint15(m, Slots, Groups)  /\ Constraint16(m, Slots, Groups)
    /\ Constraint17(m)                 /\ Constraint18(m, Slots, Groups)
    /\ Constraint19(m, Slots, Groups)  /\ Constraint20(m, Slots, Groups)
    /\ Constraint21(m, Slots, Groups)  /\ Constraint22(m, Slots, Groups)
    /\ Constraint23(m, Slots, Groups)  /\ Constraint24(m, Slots, Groups)
    /\ Constraint25(m, Slots, Groups)  /\ Constraint26(m, Slots, Groups)
    /\ Constraint11A(m, Slots, Groups) /\ Constraint11B(m, Slots, Groups)

\* ------------------------------------------------------------------------
\* The auxiliary variables of the objective: integer variables with a
\* declared domain, each tied to the decision variables by an equality.
\* ------------------------------------------------------------------------

RECURSIVE SumOver(_, _)
SumOver(f, S) ==
    IF S = {} THEN 0
    ELSE LET x == CHOOSE y \in S : TRUE IN f[x] + SumOver(f, S \ {x})

\* Maximum possible repetitions of an activity by a staff member.
max_activity_count == Len(time_slots) * Len(group_ids)

\* staff_activity_count[i,j]: the (slot, group) pairs staff i works activity j
CountIn(m, i, j) ==
    Cardinality({c \in Slots \X Groups : <<i, j, c[1], c[2]>> \in m.staff_assign})

\* Weaker than the excess of a count: repetitions are counted beyond 3.
ExcessExt_BeyondThree(c) ==
    {x \in BOOLEAN \X (0..(max_activity_count - 4)) :
        /\ x[1] => c >= 4
        /\ ~x[1] => c <= 3
        /\ x[1] => x[2] = c - 3
        /\ ~x[1] => x[2] = 0}

\* The values (excess_indicator, excess_count) that the four constraints on
\* them allow for a staff_activity_count of c.
ExcessExt(c) ==
    {x \in BOOLEAN \X (0..(max_activity_count - 4)) :
        /\ x[1] => c >= 5
        /\ ~x[1] => c <= 4
        /\ x[1] => x[2] = c - 4
        /\ ~x[1] => x[2] = 0}

\* The values of the repetition variables: staff_activity_count,
\* excess_count and staff_repeated_activities.
RepetitionExt(m) ==
    LET SA == Staff \X Activities
        cnt == Table([x \in SA |-> CountIn(m, x[1], x[2])])
        ext == Table([c \in Range(cnt) |-> ExcessExt(c)])
    IN  IF \E x \in SA : cnt[x] \notin 0..max_activity_count \/ ext[cnt[x]] = {}
        THEN {}
        ELSE LET exc == Table([x \in SA |-> (CHOOSE v \in ext[cnt[x]] : TRUE)[2]])
                 rows == Table([i \in Staff |->
                             SumOver([j \in Activities |-> exc[<<i, j>>]], Activities)])
                 rep == SumOver(rows, Staff)
             IN  IF rep \in 0..(Len(staff_ids) * Len(activity_ids) * max_activity_count)
                 THEN {[staff_activity_count |-> cnt, excess_count |-> exc,
                        staff_repeated_activities |-> rep]}
                 ELSE {}

\* Narrower than the declared domain of total_work_periods.
work_periods_domain_OneLess == 0..(Len(time_slots) - 1)

\* The declared domain of total_work_periods[i]
work_periods_domain == 0..Len(time_slots)

\* The values of all auxiliary variables of the objective for the decision
\* variables of m: the empty set when a declared domain excludes the value
\* its equality asks for.
AuxExt(m) ==
    LET nk == Len(time_slots)
        optimizable_categories == {activity_df[j].category : j \in Activities} \ {"fixed"}
        total == Table([i \in Staff |-> Cardinality({x \in m.staff_assign : x[1] = i})])
        inspection_assignments ==
            Table([i \in Staff |->
                Cardinality({k \in Slots : k[2] = 1 /\ <<i, k>> \in m.inspection_slot})])
        num_available_slots ==
            Table([i \in Staff |->
                Cardinality({k \in Slots :
                    /\ k \notin m.staff_off_time_slots[i]
                    /\ k \notin {t[1] : t \in Range(m.staff_trips[i])}})])
        work == Table([i \in Staff |-> total[i] + inspection_assignments[i]])
        unassigned == Table([i \in Staff |-> num_available_slots[i] - work[i]])
        deviation ==
            Table([i \in Staff |->
                IF unassigned[i] - 2 >= 0 THEN unassigned[i] - 2 ELSE 2 - unassigned[i]])
        variety ==
            Cardinality({x \in Groups \X Slots \X optimizable_categories :
                \E j \in Activities : /\ activity_df[j].category = x[3]
                                      /\ chosen(m, j, x[2], x[1])})
        weekly ==
            Cardinality({x \in Groups \X Activities :
                \E k \in Slots : chosen(m, x[2], k, x[1])})
        in_domains ==
            /\ \A i \in Staff :
                  /\ total[i] \in 0..(Len(activity_ids) * nk * Len(group_ids))
                  /\ work[i] \in work_periods_domain
                  /\ unassigned[i] \in (0 - nk)..nk
                  /\ deviation[i] \in 0..nk
            /\ variety \in 0..(Len(group_ids) * Len(days) * Len(periods)
                                    * Cardinality(optimizable_categories))
            /\ weekly \in 0..(Len(group_ids) * Len(activity_ids))
            /\ SumOver(deviation, Staff) \in 0..(Len(staff_ids) * nk)
    IN  IF in_domains
        THEN {r @@ [staff_total_assignments |-> total, total_work_periods |-> work,
                    num_available_slots |-> num_available_slots,
                    unassigned_periods |-> unassigned, deviation |-> deviation,
                    group_category_variety |-> variety,
                    total_group_weekly_activity_diversity |-> weekly,
                    total_unassigned_periods_deviation |-> SumOver(deviation, Staff)] :
                r \in RepetitionExt(m)}
        ELSE {}

RECURSIVE HasSolution(_, _)
\* Some values of the variables of the slots from the n-th on extend m to an
\* assignment that satisfies every constraint.
HasSolution(m, n) ==
    IF n > Len(time_slots) THEN AllConstraints(m) /\ AuxExt(m) # {}
    ELSE \E x \in SlotExt(m, time_slots[n], Labelled(n)) : HasSolution(x, n + 1)

\* The model is satisfiable.
Feasible(m) == \E x \in WeekExt(m) : HasSolution(x, 1)

\* ------------------------------------------------------------------------
\* Extraction of the schedule from the solver's values
\* ------------------------------------------------------------------------

\* The "NA" written in the group column of inspection and trip entries.
NA == 0

Entry(activity, staff, location, time_slot, group) ==
    [activity |-> activity, staff |-> staff, location |-> location,
     time_slot |-> time_slot, group |-> group]

\* Other than the staff list of an entry: the staff of the activity in any group.
assigned_staff_ids_AnyGroup(m, j, k, g) ==
    SelectSeq(staff_ids, LAMBDA i : \E h \in Groups : <<i, j, k, h>> \in m.staff_assign)

\* [i for i in staff_ids if solver.Value(staff_assign[i, j, k, g]) == 1]
assigned_staff_ids(m, j, k, g) ==
    SelectSeq(staff_ids, LAMBDA i : <<i, j, k, g>> \in m.staff_assign)

\* Other than the search of the assigned location: the first ID is skipped.
assigned_location_FromSecond(m, j, k, g) ==
    LET ls == SelectSeq(SubSeq(location_ids, 2, Len(location_ids)),
                        LAMBDA l : <<l, j, k, g>> \in m.loc_assign)
    IN  IF ls = <<>> THEN 0 ELSE ls[1]

\* The first location with loc_assign[l, j, k, g] == 1, or None (0).
assigned_location(m, j, k, g) ==
    LET ls == SelectSeq(location_ids, LAMBDA l : <<l, j, k, g>> \in m.loc_assign)
    IN  IF ls = <<>> THEN 0 ELSE ls[1]

\* staff_df.loc[staffID == i, "staffName"].values[0]
Names(ids) == [n \in DOMAIN ids |-> staff_df[ids[n]]]

\* location_df.loc[locID == l, "locName"].values[0]
LocName(l) == IF l \in Locations THEN location_df[l] ELSE "IndexError"

\* Other than the order of the nested loops: slot by slot, then group, then activity.
RegularKeys_BySlot ==
    LET nj == Len(activity_ids)
        ng == Len(group_ids)
    IN  [n \in 1..(Len(time_slots) * ng * nj) |->
            << group_ids[(((n - 1) \div nj) % ng) + 1],
               activity_ids[((n - 1) % nj) + 1],
               time_slots[((n - 1) \div (ng * nj)) + 1] >>]

\* The (g, j, k) triples in the order of the nested loops.
RegularKeys ==
    LET nj == Len(activity_ids)
        nk == Len(time_slots)
    IN  [n \in 1..(Len(group_ids) * nj * nk) |->
            << group_ids[((n - 1) \div (nj * nk)) + 1],
               activity_ids[(((n - 1) \div nk) % nj) + 1],
               time_slots[((n - 1) % nk) + 1] >>]

\* The entries of the regular activities.
RegularEntries(m) ==
    LET keep(t) == /\ t[2] # driving_range_id
                   /\ assigned_staff_ids(m, t[2], t[3], t[1]) # <<>>
        keys == SelectSeq(RegularKeys, keep)
    IN  [n \in 1..Len(keys) |->
            LET g == keys[n][1]
                j == keys[n][2]
                k == keys[n][3]
            IN  Entry(activity_df[j].activityName,
                      Names(assigned_staff_ids(m, j, k, g)),
                      LocName(assigned_location(m, j, k, g)), k, g)]

\* The (g, day) pairs in the order of the nested loops.
DrivingRangeKeys ==
    LET nd == Len(allowed_dr_days)
    IN  [n \in 1..(Len(group_ids) * nd) |->
            << group_ids[((n - 1) \div nd) + 1], allowed_dr_days[((n - 1) % nd) + 1] >>]

\* The two entries of a driving range day; names keeps the last staff name.
DrivingRangeEntries(m) ==
    Flatten([n \in 1..Len(DrivingRangeKeys) |->
        LET g == DrivingRangeKeys[n][1]
            day == DrivingRangeKeys[n][2]
            ids == SelectSeq(staff_ids, LAMBDA i : <<g, day, i>> \in m.driving_range_staff)
            names == staff_df[ids[Len(ids)]]
        IN  IF <<g, day>> \in m.driving_range_day /\ ids # <<>>
            THEN << Entry("driving range", <<names>>, "driving range", <<day, 1>>, g),
                    Entry("driving range", <<names>>, "driving range", <<day, 2>>, g) >>
            ELSE <<>>])

\* One entry per inspection slot with an inspector.
InspectionEntries(m) ==
    Flatten([n \in 1..Len(inspection_slots) |->
        LET k == inspection_slots[n]
            assigned_inspection_id ==
                SelectSeq(staff_ids, LAMBDA i : <<i, k>> \in m.inspection_slot)
        IN  IF assigned_inspection_id # <<>>
            THEN << Entry("inspection", <<staff_df[assigned_inspection_id[1]]>>,
                          "NA", k, NA) >>
            ELSE <<>>])

\* The rows (staff, slot, trip_name) of staff_trips in the order of the loops.
TripRows(m) ==
    Flatten([n \in 1..Len(staff_ids) |->
        LET i == staff_ids[n]
        IN  [x \in 1..Len(m.staff_trips[i]) |->
                <<i, m.staff_trips[i][x][1], m.staff_trips[i][x][2]>>]])

RECURSIVE FirstOccurrences(_)
\* The keys of a dict filled in the order of s.
FirstOccurrences(s) ==
    IF s = <<>> THEN <<>>
    ELSE LET init == FirstOccurrences(SubSeq(s, 1, Len(s) - 1))
             last == s[Len(s)]
         IN  IF \E n \in 1..Len(init) : init[n] = last THEN init ELSE Append(init, last)

\* One entry per (trip_name, slot) with the staff whose trip_assign is 1.
TripEntries(m) ==
    LET rows == TripRows(m)
        trip_assignments == FirstOccurrences([n \in 1..Len(rows) |-> <<rows[n][3], rows[n][2]>>])
        members(key) ==
            LET of_key == SelectSeq(rows, LAMBDA r : <<r[3], r[2]>> = key)
                on == SelectSeq(of_key, LAMBDA r : <<r[1], r[2], r[3]>> \in m.trip_assign)
            IN  [n \in 1..Len(on) |-> on[n][1]]
        trip_rows == SelectSeq(trip_assignments, LAMBDA key : members(key) # <<>>)
    IN  [n \in 1..Len(trip_rows) |->
            Entry(trip_rows[n][1], Names(members(trip_rows[n])), "NA", trip_rows[n][2], NA)]

\* ------------------------------------------------------------------------
\* State
\* ------------------------------------------------------------------------

VARIABLES
    leads_mapping,          \* self.leads_mapping
    off_days_df,            \* the rows of the off-days table
    trips_df,               \* the rows of the trips table
    waterfront_schedule,    \* self.waterfront_schedule
    staff_off_time_slots,   \* self.staff_off_time_slots
    staff_trips,            \* self.staff_trips
    activity_chosen, staff_assign, loc_assign, golf_tennis_slot,
    inspection_slot, driving_range_day, driving_range_staff, trip_assign,
    waterski_staff_day,     \* the decision variables, as fixed so far
    aux,                    \* the auxiliary variables of the objective, once fixed
    labelled,               \* how many slots of time_slots the search has fixed
    status,                 \* the status returned by solver.Solve
    schedule,               \* the list built by the extraction
    error,                  \* the message of the ValueError raised, "" if none
    pc                      \* where solve() is

inputs == <<location_df, allowed_dr_days, leads_mapping, off_days_df, trips_df, waterfront_schedule,
            staff_off_time_slots, staff_trips>>

tables == <<activity_chosen, staff_assign, loc_assign, golf_tennis_slot,
            inspection_slot, driving_range_day, driving_range_staff, trip_assign,
            waterski_staff_day>>

vars == <<inputs, tables, aux, labelled, status, schedule, error, pc>>

\* The model as the program holds it.
M ==
    [waterfront_schedule |-> waterfront_schedule,
     staff_off_time_slots |-> staff_off_time_slots, staff_trips |-> staff_trips,
     leads_mapping |-> leads_mapping, allowed_dr_days |-> allowed_dr_days,
     activity_chosen |-> activity_chosen, staff_assign |-> staff_assign,
     loc_assign |-> loc_assign, golf_tennis_slot |-> golf_tennis_slot,
     inspection_slot |-> inspection_slot, driving_range_day |-> driving_range_day,
     driving_range_staff |-> driving_range_staff, trip_assign |-> trip_assign,
     waterski_staff_day |-> waterski_staff_day]

SetTables(m) ==
    /\ activity_chosen' = m.activity_chosen
    /\ staff_assign' = m.staff_assign
    /\ loc_assign' = m.loc_assign
    /\ golf_tennis_slot' = m.golf_tennis_slot
    /\ inspection_slot' = m.inspection_slot
    /\ driving_range_day' = m.driving_range_day
    /\ driving_range_staff' = m.driving_range_staff
    /\ trip_assign' = m.trip_assign
    /\ waterski_staff_day' = m.waterski_staff_day

Init ==
    /\ location_df = LocationNames
    /\ allowed_dr_days = AllowedDays
    /\ leads_mapping = LeadsDefault
    /\ waterfront_schedule \in WaterfrontOptions
    /\ off_days_df \in OffOptions
    /\ trips_df \in TripOptions
    /\ staff_off_time_slots = OffSlots(off_days_df)
    /\ staff_trips = TripLists(trips_df)
    /\ activity_chosen = {} /\ staff_assign = {} /\ loc_assign = {}
    /\ golf_tennis_slot = {} /\ inspection_slot = {} /\ driving_range_day = {}
    /\ driving_range_staff = {} /\ trip_assign = {} /\ waterski_staff_day = {}
    /\ aux = <<>>
    /\ labelled = 0
    /\ status = "NONE"
    /\ schedule = <<>>
    /\ error = ""
    /\ pc = "week"

\* Other than the guard of the extraction: every status but INFEASIBLE passes.
extraction_guard_NotInfeasible(st) == st # "INFEASIBLE"

\* if status == cp_model.OPTIMAL or status == cp_model.FEASIBLE
extraction_guard(st) == st \in {"OPTIMAL", "FEASIBLE"}

\* Where solve() goes with the status st.
Branch(st) == IF extraction_guard(st) THEN "regular" ELSE "raise"

\* solver.Solve: the search fixes the week-level variables.
LabelWeek ==
    /\ pc = "week"
    /\ \E m \in WeekExt(M) : SetTables(m)
    /\ pc' = "slots"
    /\ UNCHANGED <<aux, error, inputs, labelled, status, schedule>>

\* solver.Solve: the search fixes the variables of the next time slot.
LabelSlot ==
    /\ pc = "slots"
    /\ labelled < Len(time_slots)
    /\ \E m \in SlotExt(M, time_slots[labelled + 1], Labelled(labelled + 1)) :
          SetTables(m)
    /\ labelled' = labelled + 1
    /\ UNCHANGED <<aux, error, inputs, status, schedule, pc>>

\* solver.Solve returns with an assignment that satisfies every constraint.
SolverFound ==
    /\ pc = "slots"
    /\ labelled = Len(time_slots)
    /\ AllConstraints(M) = TRUE
    /\ \E a \in AuxExt(M) : aux' = a
    /\ status' \in {"OPTIMAL", "FEASIBLE"}
    /\ schedule' = <<>>
    /\ pc' = Branch(status')
    /\ UNCHANGED <<error, inputs, tables, labelled>>

\* solver.Solve returns INFEASIBLE: no assignment satisfies the constraints.
SolverInfeasible ==
    /\ pc = "week"
    /\ Feasible(M) = FALSE
    /\ status' = "INFEASIBLE"
    /\ pc' = Branch(status')
    /\ UNCHANGED <<aux, error, inputs, tables, labelled, schedule>>

\* solver.Solve returns UNKNOWN: max_time_in_seconds ran out before a solution.
SolverUnknown ==
    /\ pc = "week"
    /\ status' = "UNKNOWN"
    /\ pc' = Branch(status')
    /\ UNCHANGED <<aux, error, inputs, tables, labelled, schedule>>

\* Other than the else branch: solve() returns, leaving the status to the caller.
RaiseNoSolution_Returns ==
    /\ pc = "raise"
    /\ pc' = "returned"
    /\ UNCHANGED <<aux, error, inputs, tables, labelled, status, schedule>>

\* The else branch: raise ValueError("No feasible solution found.")
RaiseNoSolution ==
    /\ pc = "raise"
    /\ error' = "No feasible solution found."
    /\ pc' = "raised"
    /\ UNCHANGED <<aux, inputs, tables, labelled, status, schedule>>

\* The loops over groups, activities and slots.
ExtractRegular ==
    /\ pc = "regular"
    /\ schedule' = schedule \o RegularEntries(M)
    /\ pc' = "driving_range"
    /\ UNCHANGED <<aux, error, inputs, tables, labelled, status>>

ExtractDrivingRange ==
    /\ pc = "driving_range"
    /\ schedule' = schedule \o DrivingRangeEntries(M)
    /\ pc' = "inspection"
    /\ UNCHANGED <<aux, error, inputs, tables, labelled, status>>

ExtractInspection ==
    /\ pc = "inspection"
    /\ schedule' = schedule \o InspectionEntries(M)
    /\ pc' = "trips"
    /\ UNCHANGED <<aux, error, inputs, tables, labelled, status>>

ExtractTrips ==
    /\ pc = "trips"
    /\ schedule' = schedule \o TripEntries(M)
    /\ pc' = "returned"
    /\ UNCHANGED <<aux, error, inputs, tables, labelled, status>>

Next ==
    \/ LabelWeek
    \/ LabelSlot
    \/ SolverFound
    \/ SolverInfeasible
    \/ SolverUnknown
    \/ RaiseNoSolution
    \/ ExtractRegular
    \/ ExtractDrivingRange
    \/ ExtractInspection
    \/ ExtractTrips

Spec == Init /\ [][Next]_vars

\* The same program run on other data: one of the activities that some slot
\* requires has lost all its leads, or two staff members are on the same trip
\* for different periods of a day, or the location table has other names, or
\* there are fewer allowed driving range days than groups.  One thing differs
\* from the main data in each run.
InitVariants ==
    /\ location_df \in LocationNamesOptions
    /\ allowed_dr_days \in AllowedDaysOptions
    /\ leads_mapping \in LeadsOptions
    /\ waterfront_schedule = W0
    /\ off_days_df = {}
    /\ trips_df \in {{}, {TripRow(9, "museum", <<6, 30, 2025>>, 1, 2),
                          TripRow(8, "museum", <<6, 30, 2025>>, 1, 1)}}
    /\ (IF location_df = LocationNames THEN 0 ELSE 1)
         + (IF allowed_dr_days = AllowedDays THEN 0 ELSE 1)
         + (IF leads_mapping = LeadsDefault THEN 0 ELSE 1)
         + (IF trips_df = {} THEN 0 ELSE 1) <= 1
    /\ staff_off_time_slots = OffSlots(off_days_df)
    /\ staff_trips = TripLists(trips_df)
    /\ activity_chosen = {} /\ staff_assign = {} /\ loc_assign = {}
    /\ golf_tennis_slot = {} /\ inspection_slot = {} /\ driving_range_day = {}
    /\ driving_range_staff = {} /\ trip_assign = {} /\ waterski_staff_day = {}
    /\ aux = <<>>
    /\ labelled = 0
    /\ status = "NONE"
    /\ schedule = <<>>
    /\ error = ""
    /\ pc = "week"

SpecVariants == InitVariants /\ [][Next]_vars

\* ------------------------------------------------------------------------
\* The waterskiing part of the CP model on its own, for waterfront patterns
\* with two waterfront slots on one day and with days without any.  Only
\* Constraints 7, 8, 9, 11A, 11B, 23 and 24 are posted on the waterskiing
\* variables, so every solution of the full model is one of this part.
\* ------------------------------------------------------------------------

\* waterfront_schedule values in which no slot is shared by two groups.
WaterskiPatterns ==
    {w \in [Groups -> {P \in SUBSET Slots :
                        \A d \in Days : Cardinality({k \in P : k[1] = d}) <= 1}] :
        \A g, h \in Groups : g # h => w[g] \cap w[h] = {}}

\* Off-day rows and trip rows of the staff member who leads waterskiing.
WaterskiOffRows == { <<2, <<6, 30, 2025>>>>, <<2, <<7, 1, 2025>>>> }

WaterskiTripRows ==
    { TripRow(2, "museum", <<7, 1, 2025>>, 2, 2),
      TripRow(2, "museum", <<6, 30, 2025>>, 1, 1) }

\* The waterskiing choices that Constraint 11A leaves open.
WaterskiChoices(m) ==
    {c \in {waterskiing_id} \X Slots \X Groups :
        Constraint11A([m EXCEPT !.activity_chosen = {c}], {c[2]}, {c[3]})}

\* The waterskiing assignments that the qualification constraint allows.
WaterskiCells(m) ==
    {x \in Staff \X {waterskiing_id} \X Slots \X Groups :
        /\ <<waterskiing_id, x[3], x[4]>> \in m.activity_chosen
        /\ Constraint9([m EXCEPT !.staff_assign = {x}], {x[3]}, {x[4]})}

\* The values of the waterskiing variables that satisfy the constraints
\* posted on them.
WaterskiExt(m) ==
    LET chosen_ext ==
            {[m EXCEPT !.activity_chosen = ac, !.trip_assign = TripKeys(m)] :
                ac \in SUBSET WaterskiChoices(m)}
        staffed_ext ==
            {x \in UNION {{[c EXCEPT !.staff_assign = sa] :
                              sa \in SUBSET WaterskiCells(c)} : c \in chosen_ext} :
                /\ Constraint7(x, Slots, Groups)
                /\ Constraint8(x, Slots, Groups)
                /\ Constraint11A(x, Slots, Groups)
                /\ Constraint23(x, Slots, Groups)
                /\ Constraint24(x, Slots, Groups)}
    IN  {x \in UNION {{[c EXCEPT !.waterski_staff_day = wsd] :
                          wsd \in SUBSET ({y[1] : y \in WaterskiCells(c)} \X Days)} :
                      c \in staffed_ext} :
            Constraint11B(x, Slots, Groups)}

InitWaterski ==
    /\ location_df = LocationNames
    /\ allowed_dr_days = AllowedDays
    /\ leads_mapping = LeadsDefault
    /\ waterfront_schedule \in WaterskiPatterns
    /\ off_days_df \in {X \in SUBSET WaterskiOffRows : Cardinality(X) <= MaxOffRows}
    /\ trips_df \in {X \in SUBSET WaterskiTripRows : Cardinality(X) <= MaxTripRows}
    /\ staff_off_time_slots = OffSlots(off_days_df)
    /\ staff_trips = TripLists(trips_df)
    /\ activity_chosen = {} /\ staff_assign = {} /\ loc_assign = {}
    /\ golf_tennis_slot = {} /\ inspection_slot = {} /\ driving_range_day = {}
    /\ driving_range_staff = {} /\ trip_assign = {} /\ waterski_staff_day = {}
    /\ aux = <<>>
    /\ labelled = 0
    /\ status = "NONE"
    /\ schedule = <<>>
    /\ error = ""
    /\ pc = "waterski"

\* The solver fixes the waterskiing assignments and the day flags.
LabelWaterski ==
    /\ pc = "waterski"
    /\ \E m \in WaterskiExt(M) : SetTables(m)
    /\ pc' = "waterski_fixed"
    /\ UNCHANGED <<aux, error, inputs, labelled, status, schedule>>

SpecWaterski == InitWaterski /\ [][LabelWaterski]_vars

\* ------------------------------------------------------------------------
\* The date mapping of __main__: the off-days table and the trips table are
\* turned into staff_off_time_slots and staff_trips before the Scheduler is
\* constructed.
\* ------------------------------------------------------------------------

\* time_slots of __main__: the 18 slots of the week.
main_time_slots ==
    {"Monday", "Tuesday", "Wednesday", "Thursday", "Friday", "Saturday"} \X {1, 2, 3}

\* Dates of the tables: a week from Sunday to Saturday, the Monday after it,
\* and the last day of February and the first of March of a leap year.
DateOptions ==
    { <<6, 29, 2025>>, <<6, 30, 2025>>, <<7, 1, 2025>>, <<7, 2, 2025>>,
      <<7, 3, 2025>>, <<7, 4, 2025>>, <<7, 5, 2025>>, <<7, 7, 2025>>,
      <<2, 29, 2024>>, <<3, 1, 2024>> }

MaxDateRows == 2

InitDates ==
    /\ location_df = LocationNames
    /\ allowed_dr_days = AllowedDays
    /\ leads_mapping = LeadsDefault
    /\ off_days_df \in {X \in SUBSET ({9} \X DateOptions) : Cardinality(X) <= MaxDateRows}
    /\ trips_df \in {{}} \cup {{TripRow(9, "museum", dt, sp, ep)} :
                                 dt \in DateOptions, sp \in 1..3, ep \in 1..3}
    /\ waterfront_schedule = W0
    /\ staff_off_time_slots = NoOff
    /\ staff_trips = NoTrips
    /\ activity_chosen = {} /\ staff_assign = {} /\ loc_assign = {}
    /\ golf_tennis_slot = {} /\ inspection_slot = {} /\ driving_range_day = {}
    /\ driving_range_staff = {} /\ trip_assign = {} /\ waterski_staff_day = {}
    /\ aux = <<>>
    /\ labelled = 0
    /\ status = "NONE"
    /\ schedule = <<>>
    /\ error = ""
    /\ pc = "main"

\* staff_off_time_slots = {staff_id: map_dates_to_time_slots(dates) ...}
MapOffDays ==
    /\ pc = "main"
    /\ staff_off_time_slots' = OffSlots(off_days_df)
    /\ pc' = "off_days_mapped"
    /\ UNCHANGED <<aux, location_df, allowed_dr_days, leads_mapping, off_days_df, trips_df, waterfront_schedule, staff_trips,
                   tables, labelled, status, schedule, error>>

\* The loop over the rows of the trips table.
ExpandTrips ==
    /\ pc = "off_days_mapped"
    /\ staff_trips' = TripLists(trips_df)
    /\ pc' = "trips_expanded"
    /\ UNCHANGED <<aux, location_df, allowed_dr_days, leads_mapping, off_days_df, trips_df, waterfront_schedule,
                   staff_off_time_slots,
                   tables, labelled, status, schedule, error>>

SpecDates == InitDates /\ [][MapOffDays \/ ExpandTrips]_vars

\* ------------------------------------------------------------------------
\* The repetition variables of the objective on their own, for staff
\* assignment tables in which a staff member works an activity up to
\* max_activity_count times.  Only the constraints on staff_activity_count,
\* excess_count and staff_repeated_activities are posted.
\* ------------------------------------------------------------------------

InitExcess ==
    /\ location_df = LocationNames
    /\ allowed_dr_days = AllowedDays
    /\ leads_mapping = LeadsDefault
    /\ off_days_df = {} /\ trips_df = {}
    /\ waterfront_schedule = W0
    /\ staff_off_time_slots = NoOff
    /\ staff_trips = NoTrips
    /\ \E n1, n2 \in 0..max_activity_count :
          \* the first n (slot, group) pairs of the week
          LET FirstPairs(n) ==
                {<<time_slots[((c - 1) \div Len(group_ids)) + 1],
                   group_ids[((c - 1) % Len(group_ids)) + 1]>> : c \in 1..n}
          IN  staff_assign = {<<7, 7, c[1], c[2]>> : c \in FirstPairs(n1)}
                                \cup {<<2, 9, c[1], c[2]>> : c \in FirstPairs(n2)}
    /\ activity_chosen = {} /\ loc_assign = {}
    /\ golf_tennis_slot = {} /\ inspection_slot = {} /\ driving_range_day = {}
    /\ driving_range_staff = {} /\ trip_assign = {} /\ waterski_staff_day = {}
    /\ aux = <<>>
    /\ labelled = 0
    /\ status = "NONE"
    /\ schedule = <<>>
    /\ error = ""
    /\ pc = "repetition"

\* The solver fixes the repetition variables.
FixRepetition ==
    /\ pc = "repetition"
    /\ \E a \in RepetitionExt(M) : aux' = a
    /\ pc' = "repetition_fixed"
    /\ UNCHANGED <<inputs, tables, labelled, status, schedule, error>>

SpecExcess == InitExcess /\ [][FixRepetition]_vars

\* ------------------------------------------------------------------------
\* Properties of the solutions and of the returned schedule
\* ------------------------------------------------------------------------

\* solver.Solve has returned a solution: the tables hold its values.
Solved == status \in {"OPTIMAL", "FEASIBLE"}

\* solve() has reached `return schedule`.
Returned == pc = "returned"

\* The positions of the schedule entries of group g in slot k.
EntriesAt(k, g) ==
    {n \in DOMAIN schedule : schedule[n].time_slot = k /\ schedule[n].group = g}

\* The positions of the schedule entries in slot k that list the staff name nm.
EntriesOf(nm, k) ==
    {n \in DOMAIN schedule :
        /\ schedule[n].time_slot = k
        /\ \E x \in DOMAIN schedule[n].staff : schedule[n].staff[x] = nm}

\* The (activity, group) pairs staff member i is assigned to in slot k.
AssignedPairs(i, k) ==
    {c \in Activities \X Groups : <<i, c[1], k, c[2]>> \in staff_assign}

\* C1: in every slot the search has fixed, and so in every solution, a staff
\* member has at most one (activity, group) assignment per time slot, and in
\* a period-1 slot the assignments plus the inspection duty of the staff
\* member are at most one.
C1_StaffNonOverlap ==
    (pc = "slots" \/ Solved) =>
        \A i \in Staff, k \in Slots :
            /\ Cardinality(AssignedPairs(i, k)) <= 1
            /\ k[2] = 1 =>
                  Cardinality(AssignedPairs(i, k))
                      + (IF <<i, k>> \in inspection_slot THEN 1 ELSE 0) <= 1

\* A returned schedule in which a staff member who leads two activities works
\* in a slot and somebody else inspects in a period-1 slot with activities.
C1_Witness ==
    /\ Returned
    /\ \E k \in Slots : Cardinality(AssignedPairs(3, k)) = 1
    /\ \E i, i2 \in Staff, k \in Slots :
          /\ k[2] = 1
          /\ <<i, k>> \in inspection_slot
          /\ Cardinality(AssignedPairs(i2, k)) = 1

\* The (activity, group) pairs that location l hosts in slot k.
HostedPairs(l, k) ==
    {c \in Activities \X Groups : <<l, c[1], k, c[2]>> \in loc_assign}

\* C2: in every solution a location hosts at most one (activity, group) pair
\* per time slot.
C2_LocationNonOverlap ==
    Solved => \A l \in Locations, k \in Slots : Cardinality(HostedPairs(l, k)) <= 1

\* A solution in which one location hosts two different activities in the
\* course of the week.
C2_Witness ==
    /\ Solved
    /\ \E l \in Locations, k1, k2 \in Slots :
          \E c1 \in HostedPairs(l, k1), c2 \in HostedPairs(l, k2) : c1[1] # c2[1]

\* C3: in every solution an activity is chosen for at most one group per time
\* slot, and no two entries of the schedule carry the same activity name in
\* the same slot for two different groups.
C3_ActivityExclusive ==
    /\ Solved =>
          \A j \in Activities, k \in Slots :
              Cardinality({g \in Groups : <<j, k, g>> \in activity_chosen}) <= 1
    /\ \A n1, n2 \in DOMAIN schedule :
          (/\ schedule[n1].activity = schedule[n2].activity
           /\ schedule[n1].time_slot = schedule[n2].time_slot)
              => schedule[n1].group = schedule[n2].group

\* A returned schedule in which both groups have the same activity, in
\* different slots.
C3_Witness ==
    /\ Returned
    /\ \E n1, n2 \in DOMAIN schedule :
          /\ schedule[n1].activity = schedule[n2].activity
          /\ schedule[n1].group \in Groups /\ schedule[n2].group \in Groups
          /\ schedule[n1].group # schedule[n2].group
          /\ schedule[n1].time_slot # schedule[n2].time_slot

\* The number of staff assigned to activity j of group g in slot k.
CountOf(j, k, g) == Cardinality({i \in Staff : <<i, j, k, g>> \in staff_assign})

\* C4: in every solution an assigned location is a valid location of its
\* activity, and the staff count of the activity lies between numStaffReq
\* and maxStaff.
C4_ValidLocationAndStaffing ==
    Solved =>
        \A x \in loc_assign :
            /\ <<x[2], x[1]>> \in location_options_df
            /\ CountOf(x[2], x[3], x[4]) >= activity_df[x[2]].numStaffReq
            /\ CountOf(x[2], x[3], x[4]) <= activity_df[x[2]].maxStaff

\* A solution with a located activity that needs two staff and one that
\* needs a single staff member although an assistant is qualified for it.
C4_Witness ==
    /\ Solved
    /\ \E x \in loc_assign : activity_df[x[2]].numStaffReq = 2
    /\ \E x \in loc_assign :
          /\ activity_df[x[2]].maxStaff = 1
          /\ \E i \in Staff : x[2] \in assists_mapping[i]

\* C5: in every slot the search has fixed, and so in every solution, a
\* chosen activity has at least one assigned staff member who leads it, and
\* every assigned staff member leads or assists the activity.
C5_Qualification ==
    (pc = "slots" \/ Solved) =>
        /\ \A x \in activity_chosen :
              \E i \in Staff :
                  /\ x[1] \in leads_mapping[i]
                  /\ <<i, x[1], x[2], x[3]>> \in staff_assign
        /\ \A x \in staff_assign :
              x[2] \in leads_mapping[x[1]] \cup assists_mapping[x[1]]

\* A solution in which an assistant works next to a lead.
C5_Witness ==
    /\ Solved
    /\ \E x \in staff_assign :
          /\ x[2] \in assists_mapping[x[1]]
          /\ x[2] \notin leads_mapping[x[1]]

\* The activities chosen for group g in slot k.
ChosenAt(k, g) == {j \in Activities : <<j, k, g>> \in activity_chosen}

\* C6: in every slot the solver has fixed, and so in every slot of a
\* solution, a group outside its waterfront pattern has exactly four chosen
\* activities when the slot is no golf+tennis slot and exactly two, golf and
\* tennis, when it is one.
C6_ActivityCount ==
    \A g \in Groups, k \in Labelled(labelled) :
        k \notin waterfront_schedule[g] =>
            IF <<k, g>> \in golf_tennis_slot
            THEN ChosenAt(k, g) = {golf_id, tennis_id}
            ELSE Cardinality(ChosenAt(k, g)) = 4

\* A solution with a golf+tennis slot and a slot of four activities.
C6_Witness ==
    /\ Solved
    /\ \E g \in Groups, k1, k2 \in Slots :
          /\ k1 \notin waterfront_schedule[g] /\ <<k1, g>> \in golf_tennis_slot
          /\ k2 \notin waterfront_schedule[g] /\ <<k2, g>> \notin golf_tennis_slot
          /\ Cardinality(ChosenAt(k2, g)) = 4

C8_OffSlotsFree ==
    Returned =>
        \A i \in Staff :
            \A k \in staff_off_time_slots[i] : EntriesOf(staff_df[i], k) = {}

\* The positions of the driving range entries of group g.
DREntries(g) ==
    {n \in DOMAIN schedule :
        schedule[n].activity = "driving range" /\ schedule[n].group = g}

GTSlots(g) == {k \in Slots : <<k, g>> \in golf_tennis_slot}

\* C10: once the solver has fixed golf_tennis_slot, and so in every
\* solution, every group has at least two golf+tennis slots in the week and
\* at most one on any day.
C10_GolfTennisFrequency ==
    (pc = "slots" \/ Solved) =>
        \A g \in Groups :
            /\ Cardinality(GTSlots(g)) >= 2
            /\ \A d \in Days : Cardinality({k \in GTSlots(g) : k[1] = d}) <= 1

\* A solution whose golf+tennis slots of a group lie on two different days.
C10_Witness ==
    /\ Solved
    /\ \E g \in Groups : \E k1, k2 \in GTSlots(g) : k1[1] # k2[1]

\* The positions of the inspection entries in slot k.
InspectionsAt(k) ==
    {n \in DOMAIN schedule :
        schedule[n].activity = "inspection" /\ schedule[n].time_slot = k}

\* C11: the returned schedule has, for every day of the week, exactly one
\* inspection entry in period 1, which lists exactly one staff member, and
\* no inspection entry in period 2 or 3.
C11_InspectionDaily ==
    Returned =>
        \A d \in Days :
            /\ Cardinality(InspectionsAt(<<d, 1>>)) = 1
            /\ \A n \in InspectionsAt(<<d, 1>>) : Len(schedule[n].staff) = 1
            /\ InspectionsAt(<<d, 2>>) = {}
            /\ InspectionsAt(<<d, 3>>) = {}

\* A returned schedule in which two different staff members inspect on the
\* two days.
C11_Witness ==
    /\ Returned
    /\ \E n1 \in InspectionsAt(<<"Monday", 1>>), n2 \in InspectionsAt(<<"Tuesday", 1>>) :
          schedule[n1].staff # schedule[n2].staff

PeriodsOf(j, g, d) == {p \in Range(periods) : <<j, <<d, p>>, g>> \in activity_chosen}

\* C13: among the slots the solver has fixed, and so in every solution, an
\* activity of duration 1 is chosen for a group in at most one period of a
\* day; driving range, of duration 2, is exempt and a solution has it in two
\* periods of one day for every group.
C13_NoDailyRepetition ==
    /\ \A g \in Groups, j \in Activities, d \in Days :
          activity_df[j].duration = 1 => Cardinality(PeriodsOf(j, g, d)) <= 1
    /\ Solved =>
          \A g \in Groups :
              \E d \in Days : Cardinality(PeriodsOf(driving_range_id, g, d)) = 2

\* A solution in which a group has driving range twice on one day and an
\* activity of duration 1 once on each of the two days.
C13_Witness ==
    /\ Solved
    /\ \E g \in Groups :
          /\ \E d \in Days : Cardinality(PeriodsOf(driving_range_id, g, d)) = 2
          /\ \E j \in Activities :
                /\ activity_df[j].duration = 1
                /\ \A d \in Days : Cardinality(PeriodsOf(j, g, d)) = 1

\* C14: solve() runs the extraction and returns entries only when the solver
\* status is OPTIMAL or FEASIBLE; with every other status the extraction is
\* not run, the schedule holds no entry and solve() is on its way to raise.
C14_NoPartialSchedule ==
    /\ pc \in {"regular", "driving_range", "inspection", "trips", "returned"} => Solved
    /\ schedule # <<>> => Solved
    /\ (status # "NONE" /\ ~Solved) =>
          /\ pc \in {"raise", "raised"}
          /\ schedule = <<>>

\* solve() has raised after the solver found the model infeasible.
C14_Witness ==
    /\ pc = "raised"
    /\ status = "INFEASIBLE"
    /\ schedule = <<>>

\* C15 as claimed: infeasibility and timeout reach the caller of solve() as
\* a result value and never as an exception.
C15_SurfacedAsResult ==
    status \in {"INFEASIBLE", "UNKNOWN"} => pc # "raised" /\ error = ""

\* C15 as amended: with a status other than OPTIMAL and FEASIBLE solve()
\* ends by raising ValueError with the fixed message "No feasible solution
\* found.", which names no status; it returns a list only with a solution.
C15_SurfacedAsValueError ==
    /\ pc = "raised" => (~Solved /\ error = "No feasible solution found.")
    /\ pc = "returned" => (Solved /\ error = "")
    /\ error # "" => pc = "raised"

\* solve() has raised after the time limit ran out without a solution.
C15_Witness ==
    /\ pc = "raised"
    /\ status = "UNKNOWN"
    /\ error = "No feasible solution found."

\* C16: for every group and day with driving_range_day set, each driving
\* range entry of the returned schedule lists every staff member whose
\* driving_range_staff is set for that group and day.
C16_DrivingRangeStaffComplete ==
    Returned =>
        \A x \in driving_range_day :
            \A n \in DREntries(x[1]) :
                schedule[n].time_slot[1] = x[2] =>
                    Range(schedule[n].staff) = {staff_df[i] : i \in DRStaff(M, x[1], x[2])}

\* The position of x in the sequence seq.
Pos(seq, x) == CHOOSE n \in DOMAIN seq : seq[n] = x

\* The part of the extraction that emits entry e: 1 regular activities,
\* 2 driving range, 3 inspection, 4 trips.
PartOf(e) ==
    CASE e.activity = "driving range" -> 2
      [] e.activity = "inspection" -> 3
      [] e.activity \in TripNames -> 4
      [] OTHER -> 1

\* The loop indices at which entry e is emitted within its part.
LoopKey(e) ==
    CASE PartOf(e) = 1 ->
            << Pos(group_ids, e.group), Pos(activity_ids, IdOf(e.activity)),
               Pos(time_slots, e.time_slot) >>
      [] PartOf(e) = 2 ->
            << Pos(group_ids, e.group), Pos(allowed_dr_days, e.time_slot[1]),
               e.time_slot[2] >>
      [] PartOf(e) = 3 -> << 0, 0, Pos(inspection_slots, e.time_slot) >>
      [] OTHER -> << 0, 0, 0 >>

\* Triple a comes before triple b in the lexicographic order.
LexLess(a, b) ==
    \/ a[1] < b[1]
    \/ a[1] = b[1] /\ a[2] < b[2]
    \/ a[1] = b[1] /\ a[2] = b[2] /\ a[3] < b[3]

\* C17 as claimed: the returned list is sorted by (time_slot, group,
\* activity, staff_name), so along the list the time slots never go back.
C17_SortedBySlot ==
    Returned =>
        \A n1, n2 \in DOMAIN schedule :
            n1 < n2 =>
                Pos(time_slots, schedule[n1].time_slot)
                    <= Pos(time_slots, schedule[n2].time_slot)

\* C17 as amended: the returned list is in the order of the extraction
\* loops: the regular entries by (group, activity, time slot), then the
\* driving range entries by (group, day, period), then the inspection
\* entries by inspection slot, then the trip entries.
C17_LoopOrder ==
    Returned =>
        \A n1, n2 \in DOMAIN schedule :
            n1 < n2 =>
                /\ PartOf(schedule[n1]) <= PartOf(schedule[n2])
                /\ (PartOf(schedule[n1]) = PartOf(schedule[n2]) /\ PartOf(schedule[n1]) < 4)
                      => LexLess(LoopKey(schedule[n1]), LoopKey(schedule[n2]))

\* A returned schedule whose list goes back in time: a later entry has an
\* earlier slot, and the list holds entries of all four parts.
C17_Witness ==
    /\ Returned
    /\ {PartOf(schedule[n]) : n \in DOMAIN schedule} = {1, 2, 3, 4}
    /\ \E n1, n2 \in DOMAIN schedule :
          /\ n1 < n2
          /\ Pos(time_slots, schedule[n2].time_slot) < Pos(time_slots, schedule[n1].time_slot)

\* The (slot, group) pairs of day d that lie in the group's waterfront pattern.
WaterfrontPairs(d) ==
    {sg \in Slots \X Groups : sg[1][1] = d /\ sg[1] \in waterfront_schedule[sg[2]]}

\* Staff member i staffs waterskiing for the pair sg.
OnWaterski(i, sg) == <<i, waterskiing_id, sg[1], sg[2]>> \in staff_assign

\* Staff member i is off or on a trip in slot k.
Away(i, k) ==
    \/ k \in staff_off_time_slots[i]
    \/ \E t \in Range(staff_trips[i]) : t[1] = k

\* C18: once the waterskiing variables are fixed, a staff member staffs
\* waterskiing in all waterfront (slot, group) pairs of a day or in none; the
\* day flag is 0 on a day without waterfront slot; and a staff member who is
\* off or on a trip in a waterfront slot of the day staffs waterskiing
\* nowhere on that day.
C18_WaterskiDayContinuity ==
    (pc = "waterski_fixed" \/ Solved) =>
        \A i \in Staff, d \in Days :
            /\ \/ \A sg \in WaterfrontPairs(d) : OnWaterski(i, sg)
               \/ \A sg \in WaterfrontPairs(d) : ~OnWaterski(i, sg)
            /\ WaterfrontPairs(d) = {} => <<i, d>> \notin waterski_staff_day
            /\ (\E sg \in WaterfrontPairs(d) : Away(i, sg[1])) =>
                  \A sg \in WaterfrontPairs(d) : ~OnWaterski(i, sg)

\* Waterskiing variables fixed for a day with two waterfront pairs, both
\* staffed by the same staff member, and a day without waterfront slot.
C18_Witness ==
    /\ pc = "waterski_fixed"
    /\ \E i \in Staff, d, e \in Days :
          /\ Cardinality(WaterfrontPairs(d)) = 2
          /\ \A sg \in WaterfrontPairs(d) : OnWaterski(i, sg)
          /\ WaterfrontPairs(e) = {}

\* C19: waterskiing is chosen for a group only in slots of the group's
\* waterfront pattern, and no staff member is assigned to waterskiing in any
\* other slot.  It holds of every slot as soon as the search has fixed it.
C19_WaterskiingInPatternOnly ==
    \A g \in Groups, k \in Slots :
        k \notin waterfront_schedule[g] =>
            /\ <<waterskiing_id, k, g>> \notin activity_chosen
            /\ \A i \in Staff : <<i, waterskiing_id, k, g>> \notin staff_assign

\* Waterskiing variables fixed with waterskiing chosen and staffed in a
\* pattern slot of a group that has slots outside its pattern.
C19_Witness ==
    /\ pc = "waterski_fixed"
    /\ \E g \in Groups, k \in Slots, i \in Staff :
          /\ k \in waterfront_schedule[g]
          /\ <<waterskiing_id, k, g>> \in activity_chosen
          /\ <<i, waterskiing_id, k, g>> \in staff_assign
          /\ Slots \ waterfront_schedule[g] # {}

\* Two groups have a slot of their waterfront patterns in common.
Coincide ==
    \E g, h \in Groups : g # h /\ waterfront_schedule[g] \cap waterfront_schedule[h] # {}

\* The activity choices that Constraint 11 fixes: waterfront and waterskiing
\* in every pattern slot of every group.
Constraint11Choices ==
    [M EXCEPT !.activity_chosen =
        {t \in {waterfront_id, waterskiing_id} \X Slots \X Groups :
            t[2] \in waterfront_schedule[t[3]]}]

C21_DateMapping ==
    pc = "trips_expanded" =>
        /\ \A r \in off_days_df :
              LET dn == day_name[weekday(r[2]) + 1]
              IN  dn # "Sunday" =>
                    /\ map_dates_to_time_slots(<<r[2]>>) = <<<<dn, 1>>, <<dn, 2>>, <<dn, 3>>>>
                    /\ {<<dn, 1>>, <<dn, 2>>, <<dn, 3>>} \subseteq staff_off_time_slots[r[1]]
        /\ \A r \in trips_df :
              LET dn == day_name[weekday(r.date) + 1]
              IN  Range(trip_slots(r)) = {<<dn, p>> : p \in r.start_period..r.end_period}
        /\ \A i \in Staff :
              /\ staff_off_time_slots[i] \subseteq main_time_slots
              /\ {t[1] : t \in Range(staff_trips[i])} \subseteq main_time_slots

\* test_group_activity_count_with_waterfront_and_golf_tennis, CASE 1: the
\* (group, time_slot) pairs of the waterfront patterns for which the test
\* reports "Expected exactly 1 activity='waterfront'".
waterfront_count_violations ==
    {x \in Groups \X Slots :
        LET distinct_acts == {schedule[n].activity : n \in EntriesAt(x[2], x[1])}
        IN  /\ x[2] \in waterfront_schedule[x[1]]
            /\ (Cardinality(distinct_acts) # 1 \/ "waterfront" \notin distinct_acts)}

\* C22: on a returned schedule the validation suite finds, in every slot of
\* a group's waterfront pattern, exactly one distinct activity for the group,
\* 'waterfront', and reports no violation.
C22_WaterfrontSlotHasOneActivity ==
    Returned => waterfront_count_violations = {}

\* C23: once the repetition variables are fixed, the excess of every staff
\* member and activity is max(0, count - 4), where count is the number of
\* (slot, group) pairs the staff member works the activity, and
\* staff_repeated_activities is the sum of the excesses.
C23_ExcessIsMaxOfZero ==
    (pc = "repetition_fixed" \/ Solved) =>
        LET over == Table([x \in Staff \X Activities |->
                        IF CountIn(M, x[1], x[2]) - 4 > 0
                        THEN CountIn(M, x[1], x[2]) - 4 ELSE 0])
        IN  /\ \A x \in Staff \X Activities : aux.excess_count[x] = over[x]
            /\ aux.staff_repeated_activities =
                  SumOver(over, {x \in Staff \X Activities : over[x] > 0})

\* Repetition variables fixed with one count above 4, one count between 1
\* and 4, and a positive staff_repeated_activities.
C23_Witness ==
    /\ pc = "repetition_fixed"
    /\ \E x, y \in Staff \X Activities :
          /\ CountIn(M, x[1], x[2]) > 5 /\ aux.excess_count[x] = CountIn(M, x[1], x[2]) - 4
          /\ CountIn(M, y[1], y[2]) \in 1..4 /\ aux.excess_count[y] = 0
          /\ aux.staff_repeated_activities = aux.excess_count[x]

\* C30: the declared domains of the auxiliary variables exclude no schedule:
\* whenever the decision variables of the whole week satisfy every
\* constraint the auxiliary variables have values in their domains; and in
\* every solution a staff member's work periods do not exceed the available
\* slots, so that the unassigned periods are not negative.
C30_AuxiliaryDomainsExcludeNothing ==
    /\ (pc = "slots" /\ labelled = Len(time_slots) /\ AllConstraints(M)) =>
            AuxExt(M) # {}
    /\ Solved =>
            \A i \in Staff :
                /\ aux.total_work_periods[i] <= aux.num_available_slots[i]
                /\ aux.unassigned_periods[i] >= 0
                /\ aux.unassigned_periods[i]
                      = aux.num_available_slots[i] - aux.total_work_periods[i]

\* A solution in which a staff member with a day off and a staff member on
\* a trip work in every slot they are available, and somebody has
\* unassigned periods.
C30_Witness ==
    /\ Solved
    /\ \E i \in Staff :
          /\ staff_off_time_slots[i] # {}
          /\ aux.total_work_periods[i] > 0
    /\ \E i \in Staff :
          /\ staff_trips[i] # <<>>
          /\ aux.num_available_slots[i] = Len(time_slots) - 1
    /\ \E i \in Staff : aux.unassigned_periods[i] > 0
    /\ \E i \in Staff : aux.total_work_periods[i] = Len(time_slots)

\* C24: an activity that no staff member can lead is never chosen, in any
\* slot and for any group; and when that activity is waterfront, waterskiing,
\* golf, tennis or driving range the solver finds no solution at all.
C24_LeaderlessNeverChosen ==
    LET leaderless == {j \in Activities :
                          \A i \in Staff : j \notin leads_mapping[i]}
    IN  /\ \A j \in leaderless, k \in Slots, g \in Groups :
              <<j, k, g>> \notin activity_chosen
        /\ leaderless \cap {waterfront_id, waterskiing_id, golf_id, tennis_id,
                            driving_range_id} # {}
              => ~Solved /\ pc # "slots"

\* A returned schedule for data in which an activity has an assistant but no lead.
C24_Witness ==
    /\ Returned /\ Solved /\ schedule # <<>>
    /\ \E j \in Activities :
          /\ \A i \in Staff : j \notin leads_mapping[i]
          /\ \E i \in Staff : j \in assists_mapping[i]

\* test_trip_staff_consistency: the trip entries of the schedule, grouped by
\* activity; staff_by_slot holds the staff of the entry of each slot (the
\* extraction emits one entry per trip and slot), the reference is the first
\* slot in sorted order, and every other slot whose staff differ is reported.
trip_staff_violations ==
    LET trip_schedule == {n \in DOMAIN schedule :
                            /\ schedule[n].group = NA
                            /\ schedule[n].location = "NA"
                            /\ schedule[n].activity # "inspection"}
        sorted_days == <<"Friday", "Monday", "Saturday", "Thursday", "Tuesday",
                         "Wednesday">>
        rank(k) == <<CHOOSE d \in DOMAIN sorted_days : sorted_days[d] = k[1], k[2]>>
        before(a, b) == LET ra == rank(a)
                            rb == rank(b)
                        IN  ra[1] < rb[1] \/ (ra[1] = rb[1] /\ ra[2] < rb[2])
        slots_of(name) == {schedule[n].time_slot :
                             n \in {x \in trip_schedule : schedule[x].activity = name}}
        staff_by_slot(name, slot) ==
            UNION {Range(schedule[n].staff) :
                     n \in {x \in trip_schedule : /\ schedule[x].activity = name
                                                   /\ schedule[x].time_slot = slot}}
        reference_slot(name) ==
            CHOOSE a \in slots_of(name) : \A b \in slots_of(name) \ {a} : before(a, b)
    IN  {x \in {schedule[n].activity : n \in trip_schedule} \X Slots :
            /\ Cardinality(slots_of(x[1])) > 1
            /\ x[2] \in slots_of(x[1]) \ {reference_slot(x[1])}
            /\ staff_by_slot(x[1], x[2]) # staff_by_slot(x[1], reference_slot(x[1]))}

\* C25: in a returned schedule the staff of a trip's entry are the same in every
\* time slot in which the trip appears, so the validation suite reports no
\* inconsistent trip.
C25_TripStaffConsistent == Returned => trip_staff_violations = {}

\* test_location_non_overlap: the (time_slot, location) groups of the entries
\* whose location is not "NA" that hold more than one distinct (group, activity).
location_overlap_violations ==
    LET located == {n \in DOMAIN schedule : schedule[n].location # "NA"}
        distinct_assignments(ts, loc) ==
            {<<schedule[n].group, schedule[n].activity>> :
                n \in {x \in located : /\ schedule[x].time_slot = ts
                                        /\ schedule[x].location = loc}}
    IN  {x \in Slots \X {schedule[n].location : n \in located} :
            Cardinality(distinct_assignments(x[1], x[2])) > 1}

\* C26: in the returned schedule no location name other than "NA" is shared by
\* two distinct (group, activity) pairs in the same time slot, the driving
\* range entries with their literal location "driving range" included.
C26_NoSharedLocationName == Returned => location_overlap_violations = {}

\* C27: golf_tennis_slot is 0 in every slot of a group's waterfront pattern; in
\* every slot the search has fixed, golf_tennis_slot[k,g] is 1 exactly when
\* golf and tennis are both chosen for (k,g); and two groups never have a
\* golf and tennis slot in the same time slot.
C27_GolfTennisSlot ==
    (pc = "slots" \/ Solved) =>
        /\ \A g \in Groups : waterfront_schedule[g] \cap GTSlots(g) = {}
        /\ \A g \in Groups, k \in Labelled(labelled) :
              k \in GTSlots(g) <=> {golf_id, tennis_id} \subseteq ChosenAt(k, g)
        /\ \A g1, g2 \in Groups : g1 # g2 => GTSlots(g1) \cap GTSlots(g2) = {}

\* A solution in which every group has golf and tennis slots, with golf and
\* tennis chosen there, and a slot outside its pattern that is not one.
C27_Witness ==
    /\ Solved
    /\ \A g \in Groups :
          /\ GTSlots(g) # {}
          /\ \A k \in GTSlots(g) : {golf_id, tennis_id} \subseteq ChosenAt(k, g)
          /\ \E k \in Slots \ (GTSlots(g) \cup waterfront_schedule[g]) :
                ChosenAt(k, g) # {}

\* C28: once the driving range days are fixed, distinct groups have driving
\* range on distinct days; and when there are more groups than allowed driving
\* range days the solver finds no solution.
C28_DistinctDrivingRangeDays ==
    /\ (pc = "slots" \/ Solved) =>
          \A g1, g2 \in Groups, day \in Range(allowed_dr_days) :
              {<<g1, day>>, <<g2, day>>} \subseteq driving_range_day => g1 = g2
    /\ Cardinality(Groups) > Len(allowed_dr_days) => ~Solved /\ pc # "slots"

\* A returned schedule in which every group has its driving range day.
C28_Witness ==
    /\ Returned /\ Solved
    /\ \A g \in Groups :
          /\ \E day \in Range(allowed_dr_days) : <<g, day>> \in driving_range_day
          /\ DREntries(g) # {}

\* C29: for every group, slot and activity other than driving range, some
\* staff member is assigned exactly when the activity is chosen, and then
\* exactly one location is assigned; the returned schedule holds exactly one
\* entry for each of them, with the name of a location, and none otherwise.
C29_OneEntryPerChosenActivity ==
    LET keys == (Activities \ {driving_range_id}) \X Slots \X Groups
        staffed(t) == \E i \in Staff : <<i, t[1], t[2], t[3]>> \in staff_assign
        entries(t) == {n \in EntriesAt(t[2], t[3]) :
                          schedule[n].activity = activity_df[t[1]].activityName}
    IN  /\ \A t \in keys :
              /\ staffed(t) <=> t \in activity_chosen
              /\ t \in activity_chosen =>
                    Cardinality({l \in Locations :
                                    <<l, t[1], t[2], t[3]>> \in loc_assign}) = 1
        /\ Returned =>
              \A t \in keys :
                  /\ Cardinality(entries(t)) = (IF t \in activity_chosen THEN 1 ELSE 0)
                  /\ \A n \in entries(t) :
                        schedule[n].location \in Range(location_df)

\* A returned schedule with entries of chosen activities and with activities
\* that are not chosen in some slot.
C29_Witness ==
    /\ Returned /\ Solved
    /\ \E t \in (Activities \ {driving_range_id}) \X Slots \X Groups :
          /\ t \in activity_chosen
          /\ \E n \in EntriesAt(t[2], t[3]) :
                schedule[n].activity = activity_df[t[1]].activityName
    /\ \E t \in (Activities \ {driving_range_id}) \X Slots \X Groups :
          t \notin activity_chosen

====
